---- MODULE Spec2Model ----
(***************************************************************************)
(* Model of the lurk-rs proving pipeline: frame generation, chunking into  *)
(* multiframes, per-multiframe Groth16 proofs, padding to a power of two,  *)
(* SnarkPack aggregation and verification (src/proof/groth16.rs,           *)
(* src/proof/mod.rs), and the older per-frame pipeline (src/proof.rs).     *)
(***************************************************************************)
EXTENDS Integers, Sequences, FiniteSets, TLC

\* ---------------------------------------------------------------- bounds
\* Largest step limit handed to outer_prove (limits run from 1: the
\* evaluator always makes the first frame).
MaxLimit == 6
\* Largest number of reduction steps a program needs to reach its terminal
\* continuation (programs with halt > limit run into the limit).
MaxHalt == 7

\* Longest sequence of (multiframe, proof) pairs handed to a sequential
\* verifier.
MaxChain == 3

\* Longest text over TextChars handed to the reader.
MaxText == 4

\* Nesting depth of the terms written and read back.
MaxDepth == 2

\* Most elements of a list built from written expressions.
MaxElems == 3

\* Longest short digit run handed to the reader.
MaxDigits == 3

\* Chunk sizes (chunk_frame_count) the provers are built with.
ChunkFrameCounts == {1, 2, 3, 4, 8}

None == "None"

\* ------------------------------------------------------------ data model
\* An IO triple.  expr is the abstract identity of the expression reached
\* after that many reductions; env is the (single) user environment.
MkIO(e, c) == [expr |-> e, env |-> 0, cont |-> c]

IsTerminal(io) == io.cont \in {"Terminal", "Error"}

\* Programs: reach a terminal continuation (Terminal or Error) after
\* exactly halt reductions.
Programs == [halt : 1..MaxHalt, endTag : {"Terminal", "Error"}]

\* The initial IO of an evaluation: the source expression, the user
\* environment and the Outermost continuation.
InitialIO == MkIO(0, "Outermost")

\* One small step of the evaluator; identity on a terminal triple.
EvalStep(p, io) ==
    IF IsTerminal(io) THEN io
    ELSE IF io.expr + 1 >= p.halt THEN MkIO(io.expr + 1, p.endTag)
    ELSE MkIO(io.expr + 1, "Call")

\* Mutant: the limit leaves the output as the step made it.
ForceError_Kept(io) == io

\* When the limit is reached the output continuation is forced to Error.
ForceError(io) == [io EXCEPT !.cont = "Error"]

\* Evaluator::iter: frames until terminal or until limit frames were made.
RECURSIVE IterFrames(_, _, _, _)
IterFrames(p, io, i, lim) ==
    IF i >= lim \/ IsTerminal(io) THEN <<>>
    ELSE LET stepped == EvalStep(p, io)
             out == IF i + 1 = lim /\ ~IsTerminal(stepped)
                    THEN ForceError(stepped) ELSE stepped
         IN  <<[input |-> io, output |-> out, i |-> i]>>
                 \o IterFrames(p, out, i + 1, lim)

\* Mutant: the stutter frame keeps the index of the frame it is cloned from.
StutterFrame_SameIndex(io, i) == [input |-> io, output |-> io, i |-> i - 1]

\* A stutter frame on a terminal triple.
StutterFrame(io, i) == [input |-> io, output |-> io, i |-> i]

\* ------------------------------------------------- Prover (proof/mod.rs)
frame_padding_count(cfcount, total_frames) == total_frames % cfcount

\* Mutant: the comparison with zero is inverted.
needs_frame_padding_Inverted(cfcount, total_frames) ==
    frame_padding_count(cfcount, total_frames) = 0

needs_frame_padding(cfcount, total_frames) ==
    frame_padding_count(cfcount, total_frames) # 0

\* Evaluator::generate_frames: the raw frames, then stutter frames cloned
\* from the terminal state while the padding predicate asks for more.
RECURSIVE PadFrames(_, _)
PadFrames(cfcount, fs) ==
    IF fs # <<>> /\ needs_frame_padding(cfcount, Len(fs))
    THEN PadFrames(cfcount,
                   Append(fs, StutterFrame(fs[Len(fs)].output, fs[Len(fs)].i + 1)))
    ELSE fs

generate_frames(p, lim, cfcount) ==
    PadFrames(cfcount, IterFrames(p, InitialIO, 0, lim))

\* ------------------------------------------------------------ multiframes
Min(a, b) == IF a < b THEN a ELSE b

\* CircuitFrame::from_frame
CircuitFrameFromFrame(initial, f) ==
    [initial |-> initial, input |-> f.input, output |-> f.output, i |-> f.i]

\* The frames of chunk k (1-based), filled to count with stutter frames.
ChunkFrames(count, fs, k) ==
    LET lo == (k - 1) * count + 1
        hi == Min(k * count, Len(fs))
        real == [j \in 1..(hi - lo + 1) |->
                     CircuitFrameFromFrame(fs[1].input, fs[lo + j - 1])]
        last == real[Len(real)]
    IN  [j \in 1..count |->
            IF j <= Len(real) THEN real[j]
            ELSE [initial |-> last.initial, input |-> last.output,
                  output |-> last.output, i |-> last.i + (j - Len(real))]]

\* Mutant: a multiframe takes its input from the end of its first frame.
from_frames_InputAfterFirst(count, fs) ==
    LET n == (Len(fs) \div count) + (IF Len(fs) % count # 0 THEN 1 ELSE 0)
    IN  [k \in 1..n |->
            LET cfs == ChunkFrames(count, fs, k)
            IN  [initial |-> fs[1].input,
                 input |-> cfs[1].output,
                 output |-> cfs[count].output,
                 frames |-> cfs,
                 chunk_size |-> count,
                 dummy |-> FALSE]]

\* MultiFrame::from_frames
from_frames(count, fs) ==
    LET n == (Len(fs) \div count) + (IF Len(fs) % count # 0 THEN 1 ELSE 0)
    IN  [k \in 1..n |->
            LET cfs == ChunkFrames(count, fs, k)
            IN  [initial |-> fs[1].input,
                 input |-> cfs[1].input,
                 output |-> cfs[count].output,
                 frames |-> cfs,
                 chunk_size |-> count,
                 dummy |-> FALSE]]

\* Mutant: the dummy stutters on a state of its own making.
make_dummy_FreshState(count, cf) ==
    LET fresh == [cf.output EXCEPT !.cont = "Dummy"]
    IN  [initial |-> cf.initial,
         input |-> fresh,
         output |-> fresh,
         frames |-> [j \in 1..count |->
                        [initial |-> cf.initial, input |-> fresh,
                         output |-> fresh, i |-> cf.i + j]],
         chunk_size |-> count,
         dummy |-> TRUE]

\* MultiFrame::make_dummy: count stutters of the terminal state the given
\* circuit frame ends in.
make_dummy(count, cf) ==
    [initial |-> cf.initial,
     input |-> cf.output,
     output |-> cf.output,
     frames |-> [j \in 1..count |->
                    [initial |-> cf.initial, input |-> cf.output,
                     output |-> cf.output, i |-> cf.i + j]],
     chunk_size |-> count,
     dummy |-> TRUE]

\* Store::intern_*: the terms are in the store afterwards; a term already
\* interned is found and the store is not changed.
intern(st, terms) == st \cup terms

\* The terms the frames refer to, each IO standing for its expression,
\* environment and continuation.
FrameTerms(fs) ==
    {fs[k].input : k \in DOMAIN fs} \cup {fs[k].output : k \in DOMAIN fs}

\* The terms a multiframe refers to.
MultiFrameTerms(mf) ==
    {mf.initial, mf.input, mf.output} \cup FrameTerms(mf.frames)
        \cup {mf.frames[k].initial : k \in DOMAIN mf.frames}

\* MultiFrame::public_inputs: the statement of a multiframe.
MultiFramePublicInputs(mf) ==
    [initial |-> mf.initial, input |-> mf.input, output |-> mf.output]

\* MultiFrame::precedes
precedes(prev, next) == prev.output = next.input

\* ------------------------------------------------------ circuit relation
\* The step relation one frame of the circuit enforces: a transition of the
\* evaluator (an Error transition included), or an admitted stutter.
StepRelation(p, cf) ==
    \/ /\ ~IsTerminal(cf.input)
       /\ \/ cf.output = EvalStep(p, cf.input)
          \/ cf.output = ForceError(EvalStep(p, cf.input))
    \/ /\ cf.input = cf.output
       /\ IsTerminal(cf.input)

\* The relation witnessed per multiframe: every step, the chaining of
\* consecutive steps, and the boundary equalities.
Satisfied(p, mf) ==
    /\ \A j \in 1..mf.chunk_size : StepRelation(p, mf.frames[j])
    /\ \A j \in 1..(mf.chunk_size - 1) :
           mf.frames[j].output = mf.frames[j + 1].input
    /\ mf.frames[1].input = mf.input
    /\ mf.frames[mf.chunk_size].output = mf.output

\* ------------------------------------------------ Groth16 (groth16.rs)
TRANSCRIPT_INCLUDE == "LURK-CIRCUIT"

\* groth16::create_random_proof: a proof binds the statement of the circuit
\* instance it was made for, and is sound only for a satisfied instance.
generate_groth16_proof(p, mf, r) ==
    [statement |-> MultiFramePublicInputs(mf),
     sat |-> Satisfied(p, mf),
     rng |-> r]

\* groth16::verify_proof
verify_proof(proof, inputs) == proof.sat /\ proof.statement = inputs

\* usize::count_ones
RECURSIVE count_ones(_)
count_ones(n) == IF n = 0 THEN 0 ELSE (n % 2) + count_ones(n \div 2)

\* Mutant: only the minimum of two proofs is enforced.
NeedsProofPadding_OnlyMinimum(n) == n < 2

\* The condition of the padding `if` and `while` of outer_prove.
NeedsProofPadding(n) == count_ones(n) # 1 \/ n < 2

\* Mutant: the first frame of the last multiframe instead of its last.
LastCircuitFrame_First(mf) == mf.frames[1]

\* The circuit frame outer_prove hands to make_dummy.
LastCircuitFrame(mf) == mf.frames[Len(mf.frames)]

\* aggregate_proofs_and_instances
aggregate_proofs_and_instances(n, transcript, stmts, prfs) ==
    [srs_count |-> n, transcript |-> transcript,
     statements |-> stmts, proofs |-> prfs]

\* verify_aggregate_proof_and_aggregate_instances: the inner proofs verify
\* against the aggregated statements, the statements chain, their two ends
\* are the claimed public inputs and outputs, and SRS and transcript match.
verify_aggregate_proof_and_aggregate_instances(vk_count, pub_in, pub_out, agg, transcript) ==
    /\ agg.srs_count = vk_count
    /\ Len(agg.proofs) = vk_count
    /\ Len(agg.statements) = vk_count
    /\ agg.transcript = transcript
    /\ \A k \in 1..Len(agg.proofs) :
           verify_proof(agg.proofs[k], agg.statements[k])
    /\ \A k \in 1..(Len(agg.statements) - 1) :
           agg.statements[k].output = agg.statements[k + 1].input
    /\ agg.statements[1].input = pub_in
    /\ agg.statements[Len(agg.statements)].output = pub_out

\* Mutants: the wrong end of a frame, or the wrong frame.
PublicInputsOf_Output(fs) == fs[1].output
PublicOutputsOf_FirstFrame(fs) == fs[1].output
PublicOutputsOf_LastInput(fs) == fs[Len(fs)].input

\* The two ends outer_prove returns.
PublicInputsOf(fs) == fs[1].input

PublicOutputsOf(fs) == fs[Len(fs)].output

\* ------------------------------------------ per-frame pipeline (proof.rs)
\* IO::public_inputs: tag and digest of expr, env and cont, in this order.
IOPublicInputs(io) ==
    << <<"tag", io.expr>>, <<"hash", io.expr>>,
       <<"tag", io.env>>, <<"hash", io.env>>,
       <<"tag", io.cont>>, <<"hash", io.cont>> >>

\* Provable for CircuitFrame: public_inputs
FramePublicInputs(cf) ==
    IOPublicInputs(cf.input) \o IOPublicInputs(cf.output)
        \o IOPublicInputs(cf.initial) \o << <<"fr", cf.i>> >>

\* Evaluator::initial
EvaluatorInitial == InitialIO

\* CircuitFrame::prove
FrameProve(p, cf, r) ==
    [statement |-> FramePublicInputs(cf),
     sat |-> StepRelation(p, cf),
     rng |-> r]

\* Mutant: the input of the last frame instead of the first.
VerifierInitial_Last(sp) == sp[Len(sp)].frame.input

\* The `initial` verify_sequential_groth16_proofs gives every frame.
VerifierInitial(sp) == sp[1].frame.input

\* ------------------------------------------------- SRS (groth16.rs:35-64)
\* const FALLBACK_TO_FAKE_SRS as this build sets it
FALLBACK_TO_FAKE_SRS == TRUE

\* The io::Error kinds of the model.
IoErrors == {"NotFound", "PermissionDenied"}

\* What the environment answers to the calls of load_srs: current_dir,
\* File::open, mmap and read_mmap each succeed ("ok") or fail with an
\* io::Error; fallback is the value of FALLBACK_TO_FAKE_SRS in the build.
SrsEnvs ==
    [cwd : {"ok", "NotFound"}, open : {"ok"} \cup IoErrors,
     mmap : {"ok", "PermissionDenied"}, read : {"ok", "InvalidData"},
     fallback : BOOLEAN]

\* The environment of a run that never loads the SRS from a broken setup.
DefaultSrsEnv ==
    [cwd |-> "ok", open |-> "ok", mmap |-> "ok", read |-> "ok",
     fallback |-> FALLBACK_TO_FAKE_SRS]

\* load_srs: Ok(real SRS), Ok(fake SRS) or Err(io::Error)
load_srs(env) ==
    IF env.cwd # "ok" THEN [err |-> env.cwd]
    ELSE IF env.open = "ok"
         THEN IF env.mmap # "ok" THEN [err |-> env.mmap]
              ELSE IF env.read # "ok" THEN [err |-> env.read]
              ELSE [ok |-> "real"]
         ELSE IF env.fallback THEN [ok |-> "fake"]
              ELSE [err |-> env.open]

\* ----------------------------------------------------------------- state
VARIABLES
    prog,              \* the program being proved
    limit,             \* the step limit
    cfc,               \* chunk_frame_count of the prover
    pc,                \* position inside outer_prove / its caller
    frames,            \* Vec<Frame>
    hydrated,          \* hydrate_scalar_cache has run
    store,             \* the terms interned in the Store
    multiframes,       \* Vec<MultiFrame>
    proofs,            \* Vec<groth16::Proof>
    statements,        \* Vec<Vec<Fr>>
    dummy_multiframe,  \* the dummy multiframe, once made
    rng,               \* state of the caller's RNG (draws so far)
    ret,               \* what outer_prove returned
    verified,          \* what the aggregate verifier answered
    outs,              \* public_outputs seen per chunk_frame_count
    initial,           \* CircuitFrame::outer_prove: evaluator.initial()
    seq_proofs,        \* SequentialProofs: Vec<(Frame, Proof)>
    v_initial,         \* verify_sequential_groth16_proofs: initial
    previous_frame,    \* verify_sequential_groth16_proofs: previous_frame
    v_next,            \* number of (frame, proof) pairs the verifier consumed
    css,               \* SequentialCS: what outer_synthesize returned
    failure,           \* the Err values that calls made so far have yielded
    srs_env,           \* what the file system answers to load_srs, and the
                       \* value FALLBACK_TO_FAKE_SRS is built with
    srs_result,        \* what load_srs returned
    srs_static,        \* the value INNER_PRODUCT_SRS holds once initialized
    source,            \* how the text handed to the reader was made
    input,             \* the text handed to the reader, as characters
    overflow_checks,   \* the build checks integer overflow (debug profile)
    read_result,       \* what read / read_maybe_meta returned
    printed            \* the text the writer made of the term read

vars == <<prog, limit, cfc, pc, frames, hydrated, store, multiframes, proofs,
          statements, dummy_multiframe, rng, ret, verified, outs,
          initial, seq_proofs, v_initial, previous_frame, v_next,
          css, failure, srs_env, srs_result, srs_static,
          source, input, overflow_checks, read_result, printed>>

\* The state of the reader.
readvars == <<source, input, overflow_checks, read_result, printed>>

\* The state of SRS loading.
srsvars == <<srs_env, srs_result, srs_static>>

\* The state of outer_synthesize and the record of failed calls.
errvars == <<css, failure>>

\* The state of the per-frame pipeline.
seqvars == <<initial, seq_proofs, v_initial, previous_frame, v_next>>

run == <<frames, hydrated, store, multiframes, proofs, statements,
         dummy_multiframe, rng, ret, verified>>

Init ==
    /\ prog \in Programs
    /\ limit \in 1..MaxLimit
    /\ cfc \in ChunkFrameCounts
    /\ pc = "start"
    /\ frames = <<>>
    /\ hydrated = FALSE
    /\ store = {}
    /\ multiframes = <<>>
    /\ proofs = <<>>
    /\ statements = <<>>
    /\ dummy_multiframe = None
    /\ rng = 0
    /\ ret = None
    /\ verified = None
    /\ outs = [c \in ChunkFrameCounts |-> {}]
    /\ initial = {}
    /\ seq_proofs = <<>>
    /\ v_initial = {}
    /\ previous_frame = {}
    /\ v_next = 0
    /\ css = <<>>
    /\ failure = {}
    /\ srs_env = DefaultSrsEnv
    /\ srs_result = {}
    /\ srs_static = {}
    /\ source = [kind |-> "none"]
    /\ input = <<>>
    /\ overflow_checks = TRUE
    /\ read_result = {}
    /\ printed = {}

\* groth16.rs:154-155
GenerateFrames ==
    /\ pc = "start"
    /\ frames' = generate_frames(prog, limit, cfc)
    /\ store' = intern(store, FrameTerms(frames'))
    /\ pc' = "hydrate"
    /\ UNCHANGED <<prog, limit, cfc, hydrated, multiframes, proofs,
                   statements, dummy_multiframe, rng, ret, verified, outs, seqvars>>
    /\ UNCHANGED errvars
    /\ UNCHANGED srsvars
    /\ UNCHANGED readvars

\* groth16.rs:156
Hydrate ==
    /\ pc = "hydrate"
    /\ hydrated' = TRUE
    /\ UNCHANGED store
    /\ pc' = "chunk"
    /\ UNCHANGED <<prog, limit, cfc, frames, multiframes, proofs,
                   statements, dummy_multiframe, rng, ret, verified, outs, seqvars>>
    /\ UNCHANGED errvars
    /\ UNCHANGED srsvars
    /\ UNCHANGED readvars

\* groth16.rs:158-169
FromFrames ==
    /\ pc = "chunk"
    /\ multiframes' = from_frames(cfc, frames)
    /\ store' = intern(store, UNION {MultiFrameTerms(multiframes'[k]) : k \in DOMAIN multiframes'})
    /\ pc' = "prove"
    /\ UNCHANGED <<prog, limit, cfc, frames, hydrated, proofs,
                   statements, dummy_multiframe, rng, ret, verified, outs, seqvars>>
    /\ UNCHANGED errvars
    /\ UNCHANGED srsvars
    /\ UNCHANGED readvars

\* Prover::multiframe_padding_count (proof/mod.rs:71-74): the default of the
\* trait, which Groth16Prover does not override (groth16.rs:313-317)
multiframe_padding_count(raw_multiframe_count) == 0

\* Prover::needs_multiframe_padding (proof/mod.rs:75-77)
needs_multiframe_padding(raw_multiframe_count) ==
    multiframe_padding_count(raw_multiframe_count) # 0

\* Mutant: the proof is made from a clone and the RNG of the caller stays
\* where it was.
rng_after_proof_Cloned(r) == r

\* The RNG of outer_prove after generate_groth16_proof(.., &mut rng): the
\* proof has drawn from the caller's RNG itself.
rng_after_proof(r) == r + 1

\* groth16.rs:170-178, one iteration of the loop over the multiframes
ProveMultiframe ==
    /\ pc = "prove"
    /\ Len(proofs) < Len(multiframes)
    /\ LET multiframe == multiframes[Len(proofs) + 1]
       IN  /\ statements' = Append(statements, MultiFramePublicInputs(multiframe))
           /\ proofs' = Append(proofs, generate_groth16_proof(prog, multiframe, rng))
    /\ rng' = rng_after_proof(rng)
    /\ UNCHANGED <<prog, limit, cfc, pc, frames, hydrated, store, multiframes,
                   dummy_multiframe, ret, verified, outs, seqvars>>
    /\ UNCHANGED errvars
    /\ UNCHANGED srsvars
    /\ UNCHANGED readvars

\* groth16.rs:180-196, the dummy multiframe and the first pass of the loop
MakeDummy ==
    /\ pc = "prove"
    /\ Len(proofs) = Len(multiframes)
    /\ NeedsProofPadding(Len(proofs))
    /\ LET last_multiframe == multiframes[Len(multiframes)]
           dm == make_dummy(cfc, LastCircuitFrame(last_multiframe))
       IN  /\ dummy_multiframe' = dm
           /\ store' = intern(store, MultiFrameTerms(dm))
           /\ proofs' = Append(proofs, generate_groth16_proof(prog, dm, rng))
           /\ statements' = Append(statements, MultiFramePublicInputs(dm))
    /\ rng' = rng_after_proof(rng)
    /\ pc' = IF NeedsProofPadding(Len(proofs')) THEN "pad" ELSE "aggregate"
    /\ UNCHANGED <<prog, limit, cfc, frames, hydrated, multiframes,
                   ret, verified, outs, seqvars>>
    /\ UNCHANGED errvars
    /\ UNCHANGED srsvars
    /\ UNCHANGED readvars

\* groth16.rs:180, the multiframe count already is a power of two >= 2
SkipPadding ==
    /\ pc = "prove"
    /\ Len(proofs) = Len(multiframes)
    /\ ~NeedsProofPadding(Len(proofs))
    /\ pc' = "aggregate"
    /\ UNCHANGED <<prog, limit, cfc, run, outs, seqvars>>
    /\ UNCHANGED errvars
    /\ UNCHANGED srsvars
    /\ UNCHANGED readvars

\* groth16.rs:192-196, a later pass of the padding loop
PadProofs ==
    /\ pc = "pad"
    /\ NeedsProofPadding(Len(proofs))
    /\ LET dummy_proof == proofs[Len(multiframes) + 1]
           dummy_statement == MultiFramePublicInputs(dummy_multiframe)
       IN  /\ proofs' = Append(proofs, dummy_proof)
           /\ statements' = Append(statements, dummy_statement)
    /\ pc' = IF NeedsProofPadding(Len(proofs')) THEN "pad" ELSE "aggregate"
    /\ UNCHANGED <<prog, limit, cfc, frames, hydrated, store, multiframes,
                   dummy_multiframe, rng, ret, verified, outs, seqvars>>
    /\ UNCHANGED errvars
    /\ UNCHANGED srsvars
    /\ UNCHANGED readvars

\* groth16.rs:198-237
AggregateAndReturn ==
    /\ pc = "aggregate"
    /\ IF count_ones(Len(statements)) # 1
       THEN /\ pc' = "panic"
            /\ UNCHANGED ret
       ELSE /\ ret' = [proof |-> aggregate_proofs_and_instances(
                                     Len(proofs), TRANSCRIPT_INCLUDE,
                                     statements, proofs),
                       proof_count |-> Len(proofs),
                       chunk_frame_count |-> cfc,
                       public_inputs |-> PublicInputsOf(frames),
                       public_outputs |-> PublicOutputsOf(frames)]
            /\ pc' = "done"
    /\ UNCHANGED <<prog, limit, cfc, frames, hydrated, store, multiframes, proofs,
                   statements, dummy_multiframe, rng, verified, outs, seqvars>>
    /\ UNCHANGED errvars
    /\ UNCHANGED srsvars
    /\ UNCHANGED readvars

\* groth16.rs:500-513
Verify ==
    /\ pc = "done"
    /\ verified' = verify_aggregate_proof_and_aggregate_instances(
                       ret.proof_count, ret.public_inputs,
                       ret.public_outputs, ret.proof, TRANSCRIPT_INCLUDE)
    /\ outs' = [outs EXCEPT ![cfc] = {ret.public_outputs}]
    /\ pc' = "verified"
    /\ UNCHANGED <<prog, limit, cfc, frames, hydrated, store, multiframes, proofs,
                   statements, dummy_multiframe, rng, ret, seqvars>>
    /\ UNCHANGED errvars
    /\ UNCHANGED srsvars
    /\ UNCHANGED readvars

\* The same program, environment and limit proved again by a prover built
\* with another chunk_frame_count (Groth16Prover::new, groth16.rs:299-310).
NewProver ==
    /\ pc = "verified"
    /\ \E c \in ChunkFrameCounts :
           /\ outs[c] = {}
           /\ cfc' = c
    /\ pc' = "start"
    /\ frames' = <<>>
    /\ hydrated' = FALSE
    /\ store' = {}
    /\ multiframes' = <<>>
    /\ proofs' = <<>>
    /\ statements' = <<>>
    /\ dummy_multiframe' = None
    /\ rng' = 0
    /\ ret' = None
    /\ verified' = None
    /\ UNCHANGED <<prog, limit, outs, seqvars>>
    /\ UNCHANGED errvars
    /\ UNCHANGED srsvars
    /\ UNCHANGED readvars

\* proof.rs:113-115
FrameEvaluate ==
    /\ pc = "start"
    /\ initial' = {EvaluatorInitial}
    /\ frames' = IterFrames(prog, InitialIO, 0, limit)
    /\ store' = intern(store, FrameTerms(frames'))
    /\ pc' = "frame_prove"
    /\ UNCHANGED <<prog, limit, cfc, hydrated, multiframes, proofs,
                   statements, dummy_multiframe, rng, ret, verified, outs,
                   seq_proofs, v_initial, previous_frame, v_next>>
    /\ UNCHANGED errvars
    /\ UNCHANGED srsvars
    /\ UNCHANGED readvars

\* proof.rs:118-129, one frame of the map; every frame gets rng.clone()
FrameOuterProve ==
    /\ pc = "frame_prove"
    /\ Len(seq_proofs) < Len(frames)
    /\ LET frame == frames[Len(seq_proofs) + 1]
           init == CHOOSE io \in initial : TRUE
       IN  seq_proofs' = Append(seq_proofs,
               [frame |-> frame,
                proof |-> FrameProve(prog,
                              CircuitFrameFromFrame(init, frame), rng)])
    /\ pc' = IF Len(seq_proofs') = Len(frames) THEN "frame_verify" ELSE pc
    /\ UNCHANGED <<prog, limit, cfc, frames, hydrated, store, multiframes, proofs,
                   statements, dummy_multiframe, rng, ret, verified, outs,
                   initial, v_initial, previous_frame, v_next>>
    /\ UNCHANGED errvars
    /\ UNCHANGED srsvars
    /\ UNCHANGED readvars

\* proof.rs:165-167
VerifySequentialStart ==
    /\ pc = "frame_verify"
    /\ seq_proofs # <<>>
    /\ previous_frame' = {}
    /\ v_initial' = {VerifierInitial(seq_proofs)}
    /\ v_next' = 0
    /\ pc' = "frame_verify_loop"
    /\ UNCHANGED <<prog, limit, cfc, frames, hydrated, store, multiframes, proofs,
                   statements, dummy_multiframe, rng, ret, verified, outs,
                   initial, seq_proofs>>
    /\ UNCHANGED errvars
    /\ UNCHANGED srsvars
    /\ UNCHANGED readvars

\* proof.rs:169-186, one pass of the loop, or the return after the last
VerifySequentialStep ==
    /\ pc = "frame_verify_loop"
    /\ IF v_next = Len(seq_proofs)
       THEN /\ verified' = TRUE
            /\ pc' = "frame_verified"
            /\ UNCHANGED v_next
       ELSE LET frame == seq_proofs[v_next + 1].frame
                proof == seq_proofs[v_next + 1].proof
                init == CHOOSE io \in v_initial : TRUE
            IN  IF \E prev \in previous_frame : ~precedes(prev, frame)
                THEN /\ verified' = FALSE
                     /\ pc' = "frame_verified"
                     /\ UNCHANGED v_next
                ELSE IF ~verify_proof(proof,
                            FramePublicInputs(CircuitFrameFromFrame(init, frame)))
                THEN /\ verified' = FALSE
                     /\ pc' = "frame_verified"
                     /\ UNCHANGED v_next
                ELSE /\ v_next' = v_next + 1
                     /\ UNCHANGED <<verified, pc>>
    /\ UNCHANGED <<prog, limit, cfc, frames, hydrated, store, multiframes, proofs,
                   statements, dummy_multiframe, rng, ret, outs,
                   initial, seq_proofs, v_initial, previous_frame>>
    /\ UNCHANGED errvars
    /\ UNCHANGED srsvars
    /\ UNCHANGED readvars

\* The SynthesisError values a failing proof generation, synthesis or
\* aggregation yields.
SynthesisErrors == {"AssignmentMissing", "Unsatisfiable"}

\* groth16.rs:172-174, generate_groth16_proof yields Err for the next
\* multiframe and .unwrap() panics
ProveMultiframeErr ==
    /\ pc = "prove"
    /\ Len(proofs) < Len(multiframes)
    /\ statements' = Append(statements,
                        MultiFramePublicInputs(multiframes[Len(proofs) + 1]))
    /\ \E e \in SynthesisErrors :
          failure' = failure \cup {[at |-> "inner proof", kind |-> e]}
    /\ pc' = "aborted"
    /\ UNCHANGED <<prog, limit, cfc, frames, hydrated, store, multiframes, proofs,
                   dummy_multiframe, rng, ret, verified, outs, seqvars, css>>
    /\ UNCHANGED srsvars
    /\ UNCHANGED readvars

\* groth16.rs:187-189, generate_groth16_proof yields Err for the dummy
\* multiframe and .unwrap() panics
MakeDummyErr ==
    /\ pc = "prove"
    /\ Len(proofs) = Len(multiframes)
    /\ NeedsProofPadding(Len(proofs))
    /\ dummy_multiframe' =
          make_dummy(cfc, LastCircuitFrame(multiframes[Len(multiframes)]))
    /\ store' = intern(store, MultiFrameTerms(dummy_multiframe'))
    /\ \E e \in SynthesisErrors :
          failure' = failure \cup {[at |-> "dummy proof", kind |-> e]}
    /\ pc' = "aborted"
    /\ UNCHANGED <<prog, limit, cfc, frames, hydrated, multiframes, proofs,
                   statements, rng, ret, verified, outs, seqvars, css>>
    /\ UNCHANGED srsvars
    /\ UNCHANGED readvars

\* groth16.rs:202-207, aggregate_proofs_and_instances yields Err and `?`
\* returns it
AggregateErr ==
    /\ pc = "aggregate"
    /\ count_ones(Len(statements)) = 1
    /\ \E e \in SynthesisErrors :
          /\ failure' = failure \cup {[at |-> "aggregation", kind |-> e]}
          /\ ret' = [err |-> e]
    /\ pc' = "returned_err"
    /\ UNCHANGED <<prog, limit, cfc, frames, hydrated, store, multiframes, proofs,
                   statements, dummy_multiframe, rng, verified, outs,
                   seqvars, css>>
    /\ UNCHANGED srsvars
    /\ UNCHANGED readvars

\* proof/mod.rs:79-95 outer_synthesize, every multiframe synthesizes
OuterSynthesize ==
    /\ pc = "prove"
    /\ proofs = <<>>
    /\ css' = [k \in 1..Len(multiframes) |->
                  [multiframe |-> multiframes[k],
                   cs |-> [statement |-> MultiFramePublicInputs(multiframes[k]),
                           sat |-> Satisfied(prog, multiframes[k])]]]
    /\ pc' = "synthesized"
    /\ UNCHANGED <<prog, limit, cfc, frames, hydrated, store, multiframes, proofs,
                   statements, dummy_multiframe, rng, ret, verified, outs,
                   seqvars, failure>>
    /\ UNCHANGED srsvars
    /\ UNCHANGED readvars

\* proof/mod.rs:90, synthesize yields Err for some multiframe and .unwrap()
\* panics
OuterSynthesizeErr ==
    /\ pc = "prove"
    /\ proofs = <<>>
    /\ \E k \in 1..Len(multiframes) : \E e \in SynthesisErrors :
          failure' = failure \cup {[at |-> "synthesis", kind |-> e]}
    /\ pc' = "aborted"
    /\ UNCHANGED <<prog, limit, cfc, frames, hydrated, store, multiframes, proofs,
                   statements, dummy_multiframe, rng, ret, verified, outs,
                   seqvars, css>>
    /\ UNCHANGED srsvars
    /\ UNCHANGED readvars

\* proof.rs:122-125, prove yields Err for the next frame and .unwrap()
\* panics
FrameOuterProveErr ==
    /\ pc = "frame_prove"
    /\ Len(seq_proofs) < Len(frames)
    /\ \E e \in SynthesisErrors :
          failure' = failure \cup {[at |-> "inner proof", kind |-> e]}
    /\ pc' = "aborted"
    /\ UNCHANGED <<prog, limit, cfc, frames, hydrated, store, multiframes, proofs,
                   statements, dummy_multiframe, rng, ret, verified, outs,
                   seqvars, css>>
    /\ UNCHANGED srsvars
    /\ UNCHANGED readvars

Next ==
    \/ GenerateFrames
    \/ Hydrate
    \/ FromFrames
    \/ ProveMultiframe
    \/ MakeDummy
    \/ SkipPadding
    \/ PadProofs
    \/ AggregateAndReturn
    \/ Verify
    \/ NewProver
    \/ FrameEvaluate
    \/ FrameOuterProve
    \/ VerifySequentialStart
    \/ VerifySequentialStep
    \/ ProveMultiframeErr
    \/ MakeDummyErr
    \/ AggregateErr
    \/ OuterSynthesize
    \/ OuterSynthesizeErr
    \/ FrameOuterProveErr

Spec == Init /\ [][Next]_vars

\* ------------------------------------------------- sequential verifiers
\* verify_sequential_css (proof/mod.rs) and verify_sequential_groth16_proofs
\* (proof/groth16.rs) on arbitrary sequences of (multiframe, cs) and
\* (multiframe, proof) pairs.  A synthesized constraint system and a proof
\* are both a record of the statement they were made for and of whether the
\* relation was satisfied.

\* is_satisfied of a constraint system
is_satisfied(cs) == cs.sat

\* cs.verify(public_inputs): the inputs are the ones allocated at synthesis
cs_verify(cs, public_inputs) == cs.statement = public_inputs

\* Mutant: the previous multiframe is never recorded.
CssPreviousAfter_NeverSet(prev, multiframe) == prev

\* previous_frame = Some(multiframe) at the end of an iteration
CssPreviousAfter(prev, multiframe) == {multiframe}

\* prev = &multiframe_proofs[i - 1].0 for i > 0 (i is zero-based; sequences
\* of the model are one-based)
Groth16Previous(mfs, i) == IF i > 0 THEN {mfs[i]} ELSE {}

\* The multiframes a caller can hand over: any input and output, with the
\* public inputs they determine.
ChainIOs == {MkIO(0, "Outermost"), MkIO(1, "Terminal")}

ChainMultiFrame(in, out) ==
    [initial |-> InitialIO, input |-> in, output |-> out, frames |-> <<>>,
     chunk_size |-> 1, dummy |-> FALSE]

ChainMultiFrames == {ChainMultiFrame(a, b) : a \in ChainIOs, b \in ChainIOs}

\* The statement of some other multiframe.
ForeignStatement(mf) ==
    [MultiFramePublicInputs(mf) EXCEPT !.initial = MkIO(0, "Error")]

ChainItems ==
    UNION {{[mf |-> m, proof |-> [statement |-> st, sat |-> b, rng |-> 0]] :
                st \in {MultiFramePublicInputs(m), ForeignStatement(m)},
                b \in BOOLEAN} : m \in ChainMultiFrames}

\* The (frame, proof) pairs a caller can hand to the per-frame verifier of
\* proof.rs: any input and output, and a proof that is the frame's own, one
\* of an unsatisfied circuit, or one made for another statement.
FrameChainItems ==
    {[input |-> a, output |-> b, proof |-> p] :
        a \in ChainIOs, b \in ChainIOs, p \in {"own", "unsatisfied", "foreign"}}

\* The sequence of pairs the items make: frame k carries the index k - 1 and
\* an own proof is one for the frame with the first frame's input as initial.
FrameChain(items) ==
    [k \in 1..Len(items) |->
        LET frame == [input |-> items[k].input, output |-> items[k].output, i |-> k - 1]
            own == FramePublicInputs(CircuitFrameFromFrame(items[1].input, frame))
            foreign == FramePublicInputs(CircuitFrameFromFrame(MkIO(0, "Error"), frame))
        IN  [frame |-> frame,
             proof |-> [statement |-> IF items[k].proof = "foreign" THEN foreign ELSE own,
                        sat |-> items[k].proof # "unsatisfied",
                        rng |-> 0]]]

InitVerify ==
    /\ prog = [halt |-> 1, endTag |-> "Terminal"]
    /\ limit = 1
    /\ cfc = 1
    /\ frames = <<>>
    /\ hydrated = FALSE
    /\ store = {}
    /\ \/ /\ pc \in {"css_loop", "groth16_loop"}
          /\ \E n \in 0..MaxChain : \E items \in [1..n -> ChainItems] :
                /\ multiframes = [k \in 1..n |-> items[k].mf]
                /\ proofs = [k \in 1..n |-> items[k].proof]
          /\ seq_proofs = <<>>
       \/ /\ pc = "frame_verify"
          /\ multiframes = <<>>
          /\ proofs = <<>>
          /\ \E n \in 0..MaxChain : \E items \in [1..n -> FrameChainItems] :
                seq_proofs = FrameChain(items)
    /\ statements = <<>>
    /\ dummy_multiframe = None
    /\ rng = 0
    /\ ret = None
    /\ verified = None
    /\ outs = [c \in ChunkFrameCounts |-> {}]
    /\ initial = {}
    /\ v_initial = {}
    /\ previous_frame = {}
    /\ v_next = 0
    /\ css = <<>>
    /\ failure = {}
    /\ srs_env = DefaultSrsEnv
    /\ srs_result = {}
    /\ srs_static = {}
    /\ source = [kind |-> "none"]
    /\ input = <<>>
    /\ overflow_checks = TRUE
    /\ read_result = {}
    /\ printed = {}

\* proof.rs:167, proofs[0] on an empty sequence: the index is out of bounds
\* and the verifier panics
VerifySequentialStartErr ==
    /\ pc = "frame_verify"
    /\ seq_proofs = <<>>
    /\ failure' = failure \cup {[at |-> "first proof", kind |-> "index out of bounds"]}
    /\ pc' = "aborted"
    /\ UNCHANGED <<prog, limit, cfc, frames, hydrated, store, multiframes, proofs, statements, dummy_multiframe, rng, ret, verified, outs, initial, seq_proofs, v_initial, previous_frame, v_next, css>>
    /\ UNCHANGED srsvars
    /\ UNCHANGED readvars

\* proof/mod.rs verify_sequential_css: one iteration of the loop, or the
\* return after it
VerifySequentialCss ==
    /\ pc = "css_loop"
    /\ IF v_next = Len(multiframes)
       THEN /\ verified' = TRUE
            /\ pc' = "css_returned"
            /\ UNCHANGED <<v_next, previous_frame>>
       ELSE LET multiframe == multiframes[v_next + 1]
                cs == proofs[v_next + 1]
            IN  IF \E prev \in previous_frame : ~precedes(prev, multiframe)
                THEN /\ verified' = FALSE
                     /\ pc' = "css_returned"
                     /\ UNCHANGED <<v_next, previous_frame>>
                ELSE IF ~is_satisfied(cs)
                THEN /\ verified' = FALSE
                     /\ pc' = "css_returned"
                     /\ UNCHANGED <<v_next, previous_frame>>
                ELSE IF ~cs_verify(cs, MultiFramePublicInputs(multiframe))
                THEN /\ verified' = FALSE
                     /\ pc' = "css_returned"
                     /\ UNCHANGED <<v_next, previous_frame>>
                ELSE /\ previous_frame' =
                            CssPreviousAfter(previous_frame, multiframe)
                     /\ v_next' = v_next + 1
                     /\ UNCHANGED <<verified, pc>>
    /\ UNCHANGED <<prog, limit, cfc, frames, hydrated, store, multiframes, proofs,
                   statements, dummy_multiframe, rng, ret, outs,
                   initial, seq_proofs, v_initial>>
    /\ UNCHANGED errvars
    /\ UNCHANGED srsvars
    /\ UNCHANGED readvars

\* proof/groth16.rs verify_sequential_groth16_proofs: one iteration of the
\* loop, or the return after it
VerifySequentialGroth16 ==
    /\ pc = "groth16_loop"
    /\ IF v_next = Len(multiframes)
       THEN /\ verified' = TRUE
            /\ pc' = "groth16_returned"
            /\ UNCHANGED v_next
       ELSE LET multiframe == multiframes[v_next + 1]
                proof == proofs[v_next + 1]
            IN  IF \E prev \in Groth16Previous(multiframes, v_next) :
                        ~precedes(prev, multiframe)
                THEN /\ verified' = FALSE
                     /\ pc' = "groth16_returned"
                     /\ UNCHANGED v_next
                ELSE IF ~verify_proof(proof, MultiFramePublicInputs(multiframe))
                THEN /\ verified' = FALSE
                     /\ pc' = "groth16_returned"
                     /\ UNCHANGED v_next
                ELSE /\ v_next' = v_next + 1
                     /\ UNCHANGED <<verified, pc>>
    /\ UNCHANGED <<prog, limit, cfc, frames, hydrated, store, multiframes, proofs,
                   statements, dummy_multiframe, rng, ret, outs,
                   initial, seq_proofs, v_initial, previous_frame>>
    /\ UNCHANGED errvars
    /\ UNCHANGED srsvars
    /\ UNCHANGED readvars

NextVerify ==
    \/ VerifySequentialCss
    \/ VerifySequentialGroth16
    \/ VerifySequentialStart
    \/ VerifySequentialStartErr
    \/ VerifySequentialStep

SpecVerify == InitVerify /\ [][NextVerify]_vars

\* ------------------------------------------------------------ SRS loading
\* The first use of INNER_PRODUCT_SRS (groth16.rs:487, 501) runs the
\* initializer `load_srs().unwrap()` of the Lazy static.

\* Everything but the position and the SRS state.
pipeline_but_read ==
    <<prog, limit, cfc, frames, hydrated, store, multiframes, proofs, statements,
      dummy_multiframe, rng, ret, verified, outs, seqvars, errvars>>

pipeline == <<pipeline_but_read, readvars>>

InitSrs ==
    /\ prog = [halt |-> 1, endTag |-> "Terminal"]
    /\ limit = 1
    /\ cfc = 1
    /\ pc = "srs_uninitialized"
    /\ frames = <<>>
    /\ hydrated = FALSE
    /\ store = {}
    /\ multiframes = <<>>
    /\ proofs = <<>>
    /\ statements = <<>>
    /\ dummy_multiframe = None
    /\ rng = 0
    /\ ret = None
    /\ verified = None
    /\ outs = [c \in ChunkFrameCounts |-> {}]
    /\ initial = {}
    /\ seq_proofs = <<>>
    /\ v_initial = {}
    /\ previous_frame = {}
    /\ v_next = 0
    /\ css = <<>>
    /\ failure = {}
    /\ srs_env \in SrsEnvs
    /\ srs_result = {}
    /\ srs_static = {}
    /\ source = [kind |-> "none"]
    /\ input = <<>>
    /\ overflow_checks = TRUE
    /\ read_result = {}
    /\ printed = {}

\* groth16.rs:487, a caller dereferences INNER_PRODUCT_SRS for the first time
ForceSrs ==
    /\ pc = "srs_uninitialized"
    /\ pc' = "srs_loading"
    /\ UNCHANGED <<pipeline, srsvars>>

\* groth16.rs:45-64 load_srs
LoadSrs ==
    /\ pc = "srs_loading"
    /\ srs_result' = {load_srs(srs_env)}
    /\ pc' = "srs_loaded"
    /\ UNCHANGED <<pipeline, srs_env, srs_static>>

\* groth16.rs:35 .unwrap() on Ok: the static holds the SRS
UnwrapSrs ==
    /\ pc = "srs_loaded"
    /\ \E r \in srs_result :
          /\ "ok" \in DOMAIN r
          /\ srs_static' = {r.ok}
    /\ pc' = "srs_ready"
    /\ UNCHANGED <<pipeline, srs_env, srs_result>>

\* groth16.rs:35 .unwrap() on Err: the initializer panics
UnwrapSrsErr ==
    /\ pc = "srs_loaded"
    /\ \E r \in srs_result : "err" \in DOMAIN r
    /\ pc' = "aborted"
    /\ UNCHANGED <<pipeline, srsvars>>

NextSrs ==
    \/ ForceSrs
    \/ LoadSrs
    \/ UnwrapSrs
    \/ UnwrapSrsErr

SpecSrs == InitSrs /\ [][NextSrs]_vars

\* ------------------------------------------------------ reader (parser.rs)
\* A text is a sequence of characters (one-character strings); pos is the
\* index of the character chars.peek() would return, Len(chars) + 1 at the
\* end of input.

\* Terms of the pool.
Nil == [tag |-> "Nil"]

Sym(name) == [tag |-> "Sym", name |-> name]

Num(value) == [tag |-> "Num", value |-> value]

Str(chars) == [tag |-> "Str", chars |-> chars]

Cons(car, cdr) == [tag |-> "Cons", car |-> car, cdr |-> cdr]

LowerCase ==
    <<"a", "b", "c", "d", "e", "f", "g", "h", "i", "j", "k", "l", "m",
      "n", "o", "p", "q", "r", "s", "t", "u", "v", "w", "x", "y", "z">>

UpperCase ==
    <<"A", "B", "C", "D", "E", "F", "G", "H", "I", "J", "K", "L", "M",
      "N", "O", "P", "Q", "R", "S", "T", "U", "V", "W", "X", "Y", "Z">>

Letters == {LowerCase[k] : k \in 1..Len(LowerCase)}
               \cup {UpperCase[k] : k \in 1..Len(UpperCase)}

DigitChars == <<"0", "1", "2", "3", "4", "5", "6", "7", "8", "9">>

\* char::to_digit(10) of a digit character
to_digit(c) == (CHOOSE k \in 1..Len(DigitChars) : DigitChars[k] = c) - 1

to_uppercase(c) ==
    IF \E k \in 1..Len(LowerCase) : LowerCase[k] = c
    THEN UpperCase[CHOOSE k \in 1..Len(LowerCase) : LowerCase[k] = c]
    ELSE c

\* Pool::alloc_sym: names are folded to upper case, and NIL is the empty
\* list.
alloc_sym(name) ==
    LET upper == [k \in 1..Len(name) |-> to_uppercase(name[k])]
    IN  IF upper = <<"N", "I", "L">> THEN Nil ELSE Sym(upper)

\* Pool::alloc_list of one element
alloc_list1(e) == Cons(e, Nil)

is_digit_char(c) == \E k \in 1..Len(DigitChars) : DigitChars[k] = c

\* Mutant: a symbol may not go on with a digit.
is_symbol_char_NoDigits(c, is_initial) ==
    c \in Letters \cup {"+", "-", "*", "/", "=", ":"}

is_symbol_char(c, is_initial) ==
    \/ c \in Letters \cup {"+", "-", "*", "/", "=", ":"}
    \/ ~is_initial /\ is_digit_char(c)

is_whitespace_char(c) == c \in {" ", "\t", "\n", "\r"}

is_comment_char(c) == c = ";"

\* Mutant: a carriage return does not end a line.
is_line_end_char_OnlyNewline(c) == c = "\n"

is_line_end_char(c) == c \in {"\n", "\r"}

\* skip_line_comment: the position of the line end (terminated) or the end
\* of input
RECURSIVE skip_line_comment(_, _)
skip_line_comment(chars, pos) ==
    IF pos > Len(chars) THEN [pos |-> pos, terminated |-> FALSE]
    ELSE IF ~is_line_end_char(chars[pos]) THEN skip_line_comment(chars, pos + 1)
    ELSE [pos |-> pos, terminated |-> TRUE]

\* skip_whitespace_and_peek: the position of the character it returns,
\* Len(chars) + 1 when it returns None
RECURSIVE skip_whitespace_and_peek(_, _)
skip_whitespace_and_peek(chars, pos) ==
    IF pos > Len(chars) THEN pos
    ELSE IF is_whitespace_char(chars[pos])
         THEN skip_whitespace_and_peek(chars, pos + 1)
    ELSE IF is_comment_char(chars[pos])
         THEN skip_whitespace_and_peek(chars, skip_line_comment(chars, pos).pos)
    ELSE pos

\* ----------------------------------------------------- u64 accumulator
\* A u64 is kept as its decimal digits, most significant first, without
\* leading zeros (zero is <<0>>): 2^64 has twenty digits, more than a
\* 32-bit integer holds.
U64Modulus == <<1, 8, 4, 4, 6, 7, 4, 4, 0, 7, 3, 7, 0, 9, 5, 5, 1, 6, 1, 6>>

Zero == <<0>>

RECURSIVE StripZeros(_)
StripZeros(ds) ==
    IF Len(ds) > 1 /\ ds[1] = 0 THEN StripZeros(Tail(ds)) ELSE ds

\* a < b for digit sequences of the same length
RECURSIVE LexLess(_, _)
LexLess(a, b) ==
    IF a = <<>> THEN FALSE
    ELSE IF a[1] # b[1] THEN a[1] < b[1]
    ELSE LexLess(Tail(a), Tail(b))

NatLess(a, b) ==
    IF Len(a) # Len(b) THEN Len(a) < Len(b) ELSE LexLess(a, b)

\* a + b for digit sequences of the same length, with the carry in front
RECURSIVE AddAligned(_, _, _)
AddAligned(a, b, carry) ==
    IF a = <<>> THEN (IF carry = 0 THEN <<>> ELSE <<carry>>)
    ELSE LET n == Len(a)
             d == a[n] + b[n] + carry
         IN  Append(AddAligned(SubSeq(a, 1, n - 1), SubSeq(b, 1, n - 1), d \div 10),
                    d % 10)

\* a - b for digit sequences of the same length with a >= b
RECURSIVE SubAligned(_, _, _)
SubAligned(a, b, borrow) ==
    IF a = <<>> THEN <<>>
    ELSE LET n == Len(a)
             d == a[n] - b[n] - borrow
         IN  Append(SubAligned(SubSeq(a, 1, n - 1), SubSeq(b, 1, n - 1),
                               IF d < 0 THEN 1 ELSE 0),
                    IF d < 0 THEN d + 10 ELSE d)

PadTo(a, n) == [k \in 1..(n - Len(a)) |-> 0] \o a

Max(a, b) == IF a >= b THEN a ELSE b

NatAdd(a, b) ==
    LET n == Max(Len(a), Len(b))
    IN  StripZeros(AddAligned(PadTo(a, n), PadTo(b, n), 0))

\* a - b for a >= b
NatSub(a, b) == StripZeros(SubAligned(a, PadTo(b, Len(a)), 0))

NatMulTen(a) == IF a = Zero THEN Zero ELSE Append(a, 0)

\* The value modulo 2^64, for values below 10 * 2^64.
RECURSIVE WrapU64(_)
WrapU64(a) == IF NatLess(a, U64Modulus) THEN a ELSE WrapU64(NatSub(a, U64Modulus))

Overflows(a) == ~NatLess(a, U64Modulus)

\* ------------------------------------------------------ reading functions
\* What a reading function hands back: Some(value), None or a panic, and
\* the position it leaves the characters at.
Some(v, p) == [kind |-> "some", val |-> v, pos |-> p, why |-> ""]

NoneAt(p) == [kind |-> "none", val |-> Nil, pos |-> p, why |-> ""]

Panic(p, why) == [kind |-> "panic", val |-> Nil, pos |-> p, why |-> why]

\* Option::unwrap
unwrap(r) ==
    IF r.kind = "none"
    THEN Panic(r.pos, "called Option::unwrap() on a None value")
    ELSE r

\* parser.rs:148-154 without the width: acc * 10 (when acc is not 0) + n
NextAcc(acc, n) == NatAdd(IF acc # Zero THEN NatMulTen(acc) ELSE acc, n)

\* read_number: acc is a u64; an overflow panics when the build checks
\* overflow and wraps around otherwise
RECURSIVE read_number_from(_, _, _)
read_number_from(chars, pos, acc) ==
    IF pos <= Len(chars) /\ is_digit_char(chars[pos])
    THEN LET n == <<to_digit(chars[pos])>>
             product == IF acc # Zero THEN NatMulTen(acc) ELSE acc
             sum == NextAcc(acc, n)
         IN  IF Overflows(product) /\ overflow_checks
             THEN Panic(pos, "attempt to multiply with overflow")
             ELSE IF Overflows(NatAdd(WrapU64(product), n)) /\ overflow_checks
             THEN Panic(pos, "attempt to add with overflow")
             ELSE read_number_from(chars, pos + 1, WrapU64(sum))
    ELSE Some(Num(acc), pos)

read_number(chars, pos) == read_number_from(chars, pos, Zero)

RECURSIVE read_symbol_from(_, _, _)
read_symbol_from(chars, pos, name) ==
    IF pos <= Len(chars) /\ is_symbol_char(chars[pos], name = <<>>)
    THEN read_symbol_from(chars, pos + 1, Append(name, chars[pos]))
    ELSE Some(alloc_sym(name), pos)

read_symbol(chars, pos) == read_symbol_from(chars, pos, <<>>)

\* Mutant: the whitespace and comments before the string are not skipped.
read_string_NoSkip(chars, pos) ==
    IF pos <= Len(chars) /\ chars[pos] = "\""
    THEN IF \E q \in (pos + 1)..Len(chars) : chars[q] = "\""
         THEN LET q == CHOOSE q \in (pos + 1)..Len(chars) :
                           /\ chars[q] = "\""
                           /\ \A h \in (pos + 1)..(q - 1) : chars[h] # "\""
              IN  Some(Str(SubSeq(chars, pos + 1, q - 1)), q + 1)
         ELSE NoneAt(Len(chars) + 1)
    ELSE NoneAt(pos)

\* read_string: no escaping; an unterminated string consumes the input and
\* is None
read_string(chars, pos) ==
    LET p == skip_whitespace_and_peek(chars, pos)
    IN  IF p <= Len(chars) /\ chars[p] = "\""
        THEN IF \E q \in (p + 1)..Len(chars) : chars[q] = "\""
             THEN LET q == CHOOSE q \in (p + 1)..Len(chars) :
                               /\ chars[q] = "\""
                               /\ \A h \in (p + 1)..(q - 1) : chars[h] # "\""
                  IN  Some(Str(SubSeq(chars, p + 1, q - 1)), q + 1)
             ELSE NoneAt(Len(chars) + 1)
        ELSE NoneAt(p)

\* Mutant: the tail read after the cdr of a dotted pair is the result.
DottedTail_Remaining(cdr, remaining_tail) == remaining_tail

\* parser.rs:128, the value of a tail that starts with a dot
DottedTail(cdr, remaining_tail) == cdr

RECURSIVE read_next(_, _), read_tail(_, _)

read_list(chars, pos) ==
    IF pos <= Len(chars) /\ chars[pos] = "("
    THEN read_tail(chars, pos + 1)
    ELSE NoneAt(pos)

read_tail(chars, pos) ==
    LET p == skip_whitespace_and_peek(chars, pos)
    IN  IF p > Len(chars) THEN Panic(p, "premature end of input")
        ELSE IF chars[p] = ")" THEN Some(Nil, p + 1)
        ELSE IF chars[p] = "."
        THEN LET cdr == unwrap(read_next(chars, p + 1))
             IN  IF cdr.kind = "panic" THEN cdr
                 ELSE LET remaining_tail == unwrap(read_tail(chars, cdr.pos))
                      IN  IF remaining_tail.kind = "panic" THEN remaining_tail
                          ELSE IF remaining_tail.val # Nil
                          THEN Panic(remaining_tail.pos,
                                     "assertion failed: remaining_tail.is_nil()")
                          ELSE Some(DottedTail(cdr.val, remaining_tail.val),
                                    remaining_tail.pos)
        ELSE LET car == unwrap(read_next(chars, p))
             IN  IF car.kind = "panic" THEN car
                 ELSE LET rest == unwrap(read_tail(chars, car.pos))
                      IN  IF rest.kind = "panic" THEN rest
                          ELSE Some(Cons(car.val, rest.val), rest.pos)

\* read_next: the loop goes on after a branch that yields None
read_next(chars, pos) ==
    IF pos > Len(chars) THEN NoneAt(pos)
    ELSE LET c == chars[pos]
             branch ==
                 IF c = "(" THEN read_list(chars, pos)
                 ELSE IF is_digit_char(c) THEN read_number(chars, pos)
                 ELSE IF c \in {" ", "\t", "\n", "\r"}
                 THEN read_next(chars, pos + 1)
                 ELSE IF c = "'"
                 THEN LET quoted == read_next(chars, pos + 1)
                      IN  IF quoted.kind # "some" THEN quoted
                          ELSE Some(Cons(alloc_sym(<<"q", "u", "o", "t", "e">>),
                                         alloc_list1(quoted.val)),
                                    quoted.pos)
                 ELSE IF c = "\"" THEN read_string(chars, pos)
                 ELSE IF c = ";"
                 THEN LET skipped == skip_line_comment(chars, pos + 1)
                      IN  IF skipped.terminated
                          THEN read_next(chars, skipped.pos)
                          ELSE NoneAt(skipped.pos)
                 ELSE IF is_symbol_char(c, TRUE) THEN read_symbol(chars, pos)
                 ELSE Panic(pos, "bad input character")
         IN  IF branch.kind = "none" /\ c # "'" /\ ~is_whitespace_char(c)
             THEN read_next(chars, branch.pos)
             ELSE branch

\* Pool::read
read(chars) == read_next(chars, 1)

\* The (Ptr, bool) that read_maybe_meta hands back.
WithMeta(r, is_meta) ==
    [kind |-> r.kind, val |-> r.val, pos |-> r.pos, why |-> r.why,
     meta |-> is_meta]

RECURSIVE read_maybe_meta(_, _)
read_maybe_meta(chars, pos) ==
    LET p == skip_whitespace_and_peek(chars, pos)
    IN  IF p > Len(chars) THEN WithMeta(NoneAt(p), FALSE)
        ELSE IF chars[p] = "!"
        THEN LET s == read_string(chars, p + 1)
             IN  IF s.kind = "some" THEN WithMeta(s, TRUE)
                 ELSE LET e == read_maybe_meta(chars, s.pos)
                      IN  IF e.kind # "some" THEN e
                          ELSE IF e.meta
                          THEN WithMeta(Panic(e.pos, "assertion failed: !is_meta"),
                                        FALSE)
                          ELSE WithMeta(e, TRUE)
        ELSE WithMeta(read_next(chars, p), FALSE)

\* ------------------------------------------------------------ the writer
\* Write::fmt_to_string of a term: symbols by name, NIL for the empty list,
\* lists in parentheses with single spaces, a dotted tail as " . tail".
RECURSIVE write(_), write_tail(_)

write(t) ==
    IF t.tag = "Nil" THEN <<"N", "I", "L">>
    ELSE IF t.tag = "Sym" THEN t.name
    ELSE IF t.tag = "Num" THEN [k \in 1..Len(t.value) |-> DigitChars[t.value[k] + 1]]
    ELSE IF t.tag = "Str" THEN <<"\"">> \o t.chars \o <<"\"">>
    ELSE <<"(">> \o write(t.car) \o write_tail(t.cdr)

write_tail(t) ==
    IF t.tag = "Nil" THEN <<")">>
    ELSE IF t.tag = "Cons" THEN <<" ">> \o write(t.car) \o write_tail(t.cdr)
    ELSE <<" ", ".", " ">> \o write(t) \o <<")">>

\* ------------------------------------------------------ texts to be read
\* Characters of the texts tried exhaustively: the delimiters, a space, a
\* letter, a digit, the meta marker, the string quote and a character
\* outside the grammar.
TextChars == {"(", ")", ".", " ", "a", "1", "!", "\"", "#"}

\* What may stand before a text: nothing, or a comment line.
Prefixes == {<<>>, <<";", "c", "\n">>}

Texts == UNION {[1..n -> TextChars] : n \in 0..MaxText}

\* Terms built from symbols, the empty list and pairs.
Atoms == {Nil, Sym(<<"A">>), Sym(<<"B", "1">>)}

RECURSIVE TermsOfDepth(_)
TermsOfDepth(d) ==
    IF d = 0 THEN Atoms
    ELSE LET below == TermsOfDepth(d - 1)
         IN  Atoms \cup {Cons(a, b) : a \in below, b \in below}

\* Expressions as they are written, each with the term it denotes.
Written ==
    { [text |-> <<"a">>, term |-> Sym(<<"A">>)],
      [text |-> <<"4", "2">>, term |-> Num(<<4, 2>>)],
      [text |-> <<"(", ")">>, term |-> Nil],
      [text |-> <<"(", "b", ")">>, term |-> Cons(Sym(<<"B">>), Nil)],
      [text |-> <<"(", "a", " ", ".", " ", "b", ")">>,
       term |-> Cons(Sym(<<"A">>), Sym(<<"B">>))] }

RECURSIVE JoinTexts(_)
JoinTexts(es) ==
    IF es = <<>> THEN <<>>
    ELSE IF Len(es) = 1 THEN es[1].text
    ELSE es[1].text \o <<" ">> \o JoinTexts(Tail(es))

\* "(e1 ... en . t)", "(e1 ... en)" and "(e1 ... en . ())"
ListText(shape, es, t) ==
    <<"(">> \o JoinTexts(es)
        \o (IF shape = "dotted" THEN <<" ", ".", " ">> \o t.text
            ELSE IF shape = "dotted nil" THEN <<" ", ".", " ", "(", ")">>
            ELSE <<>>)
        \o <<")">>

\* Digit runs: every run of up to MaxDigits digits among 0, 1 and 9, and
\* the runs around the largest u64.
LongRuns ==
    { <<"1", "8", "4", "4", "6", "7", "4", "4", "0", "7", "3", "7", "0", "9",
        "5", "5", "1", "6", "1", "5">>,
      <<"1", "8", "4", "4", "6", "7", "4", "4", "0", "7", "3", "7", "0", "9",
        "5", "5", "1", "6", "1", "6">>,
      <<"1", "8", "4", "4", "6", "7", "4", "4", "0", "7", "3", "7", "0", "9",
        "5", "5", "1", "6", "2", "0">>,
      <<"9", "9", "9", "9", "9", "9", "9", "9", "9", "9", "9", "9", "9", "9",
        "9", "9", "9", "9", "9", "9">> }

DigitRuns == UNION {[1..n -> {"0", "1", "9"}] : n \in 1..MaxDigits} \cup LongRuns

\* What follows a digit run.
AfterRun == {<<>>, <<"z">>, <<" ", "7">>, <<")">>, <<"(">>}

\* What precedes a digit run.
BeforeRun == {<<>>, <<" ">>, <<"0", "0">>}

\* Expressions as sequences of tokens, a comment to be put where a token
\* may start.
TokenLists ==
    { <<>>,
      << <<"a">> >>,
      << <<"4", "2">> >>,
      << <<"(">>, <<"a">>, <<"b">>, <<")">> >>,
      << <<"(">>, <<"a">>, <<".">>, <<"b">>, <<")">> >>,
      << <<"'">>, <<"a">> >>,
      << <<"!">>, <<"a">> >>,
      << <<"!">>, <<"\"", "s", "\"">> >> }

\* What a comment holds after its ';'.
CommentBodies == {<<>>, <<"c">>, <<"(">>, <<"\"", ")">>, <<";", "!">>}

\* How a comment ends: a line end, or the end of the input.
LineEnds == {<<"\n">>, <<"\r">>, <<>>}

\* The tokens with single spaces between them, and filler after the k-th
\* token (before the first for k = 0).
RECURSIVE GlueFrom(_, _, _, _)
GlueFrom(tokens, i, k, filler) ==
    IF i > Len(tokens) THEN <<>>
    ELSE tokens[i]
             \o (IF i = k THEN filler
                 ELSE IF i < Len(tokens) THEN <<" ">> ELSE <<>>)
             \o GlueFrom(tokens, i + 1, k, filler)

Glue(tokens, k, filler) ==
    (IF k = 0 THEN filler ELSE <<>>) \o GlueFrom(tokens, 1, k, filler)

\* The pipeline is not running while the reader is.
PipelineIdle ==
    /\ prog = [halt |-> 1, endTag |-> "Terminal"]
    /\ limit = 1
    /\ cfc = 1
    /\ frames = <<>>
    /\ hydrated = FALSE
    /\ store = {}
    /\ multiframes = <<>>
    /\ proofs = <<>>
    /\ statements = <<>>
    /\ dummy_multiframe = None
    /\ rng = 0
    /\ ret = None
    /\ verified = None
    /\ outs = [c \in ChunkFrameCounts |-> {}]
    /\ initial = {}
    /\ seq_proofs = <<>>
    /\ v_initial = {}
    /\ previous_frame = {}
    /\ v_next = 0
    /\ css = <<>>
    /\ failure = {}
    /\ srs_env = DefaultSrsEnv
    /\ srs_result = {}
    /\ srs_static = {}

\* A text is handed to the reader.  Only a run of twenty digits can
\* overflow the accumulator, so the build profile matters for digit runs.
InitRead ==
    /\ PipelineIdle
    /\ pc = "read_start"
    /\ read_result = {}
    /\ printed = {}
    /\ \/ /\ \E pre \in Prefixes : \E text \in Texts :
                /\ source = [kind |-> "text", prefix |-> pre, body |-> text]
                /\ input = pre \o text
          /\ overflow_checks = TRUE
       \/ /\ \E t \in TermsOfDepth(MaxDepth) :
                /\ source = [kind |-> "term", term |-> t]
                /\ input = write(t)
          /\ overflow_checks = TRUE
       \/ /\ \E n \in 1..MaxElems : \E es \in [1..n -> Written] :
             \E t \in Written : \E shape \in {"dotted", "proper", "dotted nil"} :
                /\ source = [kind |-> "list", shape |-> shape, elems |-> es,
                             tail |-> t]
                /\ input = ListText(shape, es, t)
          /\ overflow_checks = TRUE
       \/ /\ \E before \in BeforeRun : \E digits \in DigitRuns :
             \E rest \in AfterRun :
                /\ source = [kind |-> "digits", before |-> before,
                             digits |-> digits, rest |-> rest]
                /\ input = before \o digits \o rest
          /\ overflow_checks \in BOOLEAN
       \/ /\ \E tokens \in TokenLists : \E k \in 0..Len(tokens) :
             \E body \in CommentBodies : \E end \in LineEnds :
                /\ end = <<>> => k = Len(tokens)
                /\ source = [kind |-> "commented", tokens |-> tokens, gap |-> k,
                             comment |-> <<";">> \o body \o end,
                             plain |-> Glue(tokens, k, end)]
                /\ input = Glue(tokens, k, <<";">> \o body \o end)
          /\ overflow_checks = TRUE

\* Pool::read on the text
Read ==
    /\ pc = "read_start"
    /\ read_result' = {read(input)}
    /\ pc' = "read_done"
    /\ UNCHANGED <<pipeline_but_read, srsvars, source, input, overflow_checks, printed>>

\* Pool::read_maybe_meta on the text
ReadMaybeMeta ==
    /\ pc = "read_start"
    /\ read_result' = {read_maybe_meta(input, 1)}
    /\ pc' = "meta_done"
    /\ UNCHANGED <<pipeline_but_read, srsvars, source, input, overflow_checks, printed>>

\* Pool::read_string on the text (test read_string)
ReadString ==
    /\ pc = "read_start"
    /\ read_result' = {read_string(input, 1)}
    /\ pc' = "string_done"
    /\ UNCHANGED <<pipeline_but_read, srsvars, source, input, overflow_checks, printed>>

\* The term read is written out (test read_print_expr)
WriteBack ==
    /\ pc = "read_done"
    /\ \E r \in read_result :
          /\ r.kind = "some"
          /\ printed' = {write(r.val)}
    /\ pc' = "written"
    /\ UNCHANGED <<pipeline_but_read, srsvars, source, input, overflow_checks,
                   read_result>>

NextRead ==
    \/ Read
    \/ ReadMaybeMeta
    \/ ReadString
    \/ WriteBack

SpecRead == InitRead /\ [][NextRead]_vars

\* ---------------------------------------------------------------- claims
IsPowerOfTwo(n) == \E k \in 0..n : 2 ^ k = n

IsStutter(f) == f.input = f.output /\ IsTerminal(f.input)

\* Positions of outer_prove (groth16.rs) after frame generation.
AfterFrames == {"hydrate", "chunk", "prove", "pad", "aggregate", "done", "verified"}
\* Positions after the multiframes were built.
AfterChunking == {"prove", "pad", "aggregate", "done", "verified"}
\* Positions after the padding loop.
AfterPadding == {"aggregate", "done", "verified"}
\* Positions after outer_prove returned.
AfterReturn == {"done", "verified"}

\* C1: once the padding loop of outer_prove is over, the number of inner
\* proofs, the number of statements and the returned proof_count are one
\* number, which is a power of two and at least 2.
C1_ProofCountPowerOfTwo ==
    /\ pc \in AfterPadding =>
           /\ Len(multiframes) >= 1
           /\ Len(proofs) = Len(statements)
           /\ IsPowerOfTwo(Len(proofs))
           /\ Len(proofs) >= 2
    /\ pc \in AfterReturn => ret.proof_count = Len(proofs)
    /\ pc # "panic"

\* Three multiframes were proved and padded to four proofs.
C1_Witness ==
    /\ pc = "done"
    /\ Len(multiframes) = 3
    /\ ret.proof_count = 4

\* C2: the output of every multiframe is the input of the next one.
C2_MultiframesChain ==
    pc \in AfterChunking =>
        \A k \in 1..(Len(multiframes) - 1) :
            /\ multiframes[k].output = multiframes[k + 1].input
            /\ precedes(multiframes[k], multiframes[k + 1])

\* Three multiframes of two frames each, all through distinct states.
C2_Witness ==
    /\ pc = "prove"
    /\ cfc = 2
    /\ Len(multiframes) = 3
    /\ multiframes[1].output # multiframes[2].output
    /\ multiframes[2].input # multiframes[3].input

\* C3: every multiframe (the dummy included) and every frame that is proved
\* or verified carries one and the same initial, the input of the first frame.
C3_SharedInitial ==
    frames # <<>> =>
        /\ \A k \in 1..Len(multiframes) :
               /\ multiframes[k].initial = frames[1].input
               /\ \A j \in 1..cfc :
                      multiframes[k].frames[j].initial = frames[1].input
        /\ \A k \in 1..Len(statements) :
               statements[k].initial = frames[1].input
        /\ \A k \in 1..Len(proofs) :
               proofs[k].statement.initial = frames[1].input
        /\ \A k \in 1..Len(seq_proofs) :
               SubSeq(seq_proofs[k].proof.statement, 13, 18)
                   = IOPublicInputs(frames[1].input)
        /\ initial \subseteq {frames[1].input}
        /\ v_initial \subseteq {frames[1].input}
        /\ frames[1].input = InitialIO

\* The per-frame verifier has accepted at least three proved frames.
C3_Witness ==
    /\ pc = "frame_verify_loop"
    /\ v_next >= 3
    /\ v_initial # {}

\* C4: consecutive frames chain, and their indices count up by one.
C4_FramesChain ==
    \A k \in 1..(Len(frames) - 1) :
        /\ frames[k].output = frames[k + 1].input
        /\ frames[k + 1].i = frames[k].i + 1

\* Frames of a program that took three steps, padded by a stutter frame.
C4_Witness ==
    /\ pc = "hydrate"
    /\ Len(frames) = 4
    /\ frames[3].input # frames[3].output
    /\ frames[4].input = frames[4].output

\* The frames behind the statements handed to the aggregator, in order:
\* those of the real multiframes, then those of the dummy multiframe.
ProvedFrames(k) ==
    IF k <= Len(multiframes) THEN multiframes[k].frames
    ELSE dummy_multiframe.frames

\* C5: a frame that starts in a terminal state is a stutter frame, so within
\* a multiframe and along the proved multiframes only stutter frames follow
\* the first terminal state; the frames of the dummy multiframe are such.
C5_OnlyStuttersAfterTerminal ==
    pc \in AfterChunking =>
        /\ \A k \in 1..Len(statements) : \A j \in 1..cfc :
               LET fs == ProvedFrames(k)
               IN  /\ IsTerminal(fs[j].input) => IsStutter(fs[j])
                   /\ \A h \in 1..(j - 1) :
                          IsTerminal(fs[h].output) => IsStutter(fs[j])
                   /\ k > Len(multiframes) => IsStutter(fs[j])
        /\ \A k \in 1..Len(multiframes) : \A j \in 1..cfc :
               LET fs == multiframes[k].frames
               IN  \A h \in 1..(j - 1) :
                       IsTerminal(fs[h].output) => IsStutter(fs[j])

\* A multiframe of four frames: two steps, then two stutter frames.
C5_Witness ==
    /\ pc = "prove"
    /\ cfc = 4
    /\ Len(multiframes) = 1
    /\ ~IsStutter(multiframes[1].frames[2])
    /\ IsStutter(multiframes[1].frames[3])
    /\ IsStutter(multiframes[1].frames[4])

\* C6: the frames handed to the chunker are a positive multiple of
\* chunk_frame_count, and every multiframe holds exactly that many of them.
C6_FramesMultipleOfChunk ==
    /\ pc \in AfterFrames =>
           /\ Len(frames) > 0
           /\ Len(frames) % cfc = 0
    /\ pc \in AfterChunking =>
           /\ Len(multiframes) * cfc = Len(frames)
           /\ \A k \in 1..Len(multiframes) : \A j \in 1..cfc :
                  /\ DOMAIN multiframes[k].frames = 1..cfc
                  /\ multiframes[k].frames[j].input
                         = frames[(k - 1) * cfc + j].input
                  /\ multiframes[k].frames[j].output
                         = frames[(k - 1) * cfc + j].output

\* Four raw frames were padded to six for chunks of three.
C6_Witness ==
    /\ pc = "prove"
    /\ cfc = 3
    /\ Len(frames) = 6
    /\ ~IsStutter(frames[4])
    /\ IsStutter(frames[5])

\* C7: every dummy statement has input = output = the terminal output of the
\* last real multiframe, and the padded statements chain.
C7_DummyStatementsTerminal ==
    pc \in {"pad"} \cup AfterPadding =>
        /\ \A k \in (Len(multiframes) + 1)..Len(statements) :
               /\ statements[k].input = statements[k].output
               /\ statements[k].output = multiframes[Len(multiframes)].output
               /\ IsTerminal(statements[k].output)
        /\ \A k \in 1..(Len(statements) - 1) :
               statements[k].output = statements[k + 1].input

\* Five multiframes of one frame, three dummy statements appended.
C7_Witness ==
    /\ pc = "aggregate"
    /\ cfc = 1
    /\ Len(multiframes) = 5
    /\ Len(statements) = 8

\* C8: outer_prove returns the input of the first frame (initial expression,
\* environment, Outermost) and the output of the last frame, which is the
\* output of the last real multiframe.
C8_ReturnedEnds ==
    pc \in AfterReturn =>
        /\ ret.public_inputs = frames[1].input
        /\ ret.public_inputs = MkIO(0, "Outermost")
        /\ ret.public_outputs = frames[Len(frames)].output
        /\ ret.public_outputs = multiframes[Len(multiframes)].output

\* Returned from a run of three steps in chunks of two.
C8_Witness ==
    /\ pc = "done"
    /\ cfc = 2
    /\ Len(multiframes) = 2
    /\ ret.public_outputs.expr = 3

\* C9: for one program, environment and limit the public outputs are the
\* same for every chunk_frame_count in {1,2,4,8}.
C9_PaddingEquivalence ==
    \A c \in {1, 2, 4, 8} : \A d \in {1, 2, 4, 8} :
        (outs[c] # {} /\ outs[d] # {}) => outs[c] = outs[d]

\* All four chunk sizes were run on a program of three steps.
C9_Witness ==
    /\ \A c \in {1, 2, 4, 8} : outs[c] # {}
    /\ prog.halt = 3
    /\ limit >= 3

\* C10: the aggregate verifier accepts what outer_prove returned.
C10_AggregateVerifies ==
    pc = "verified" => verified = TRUE

\* A padded aggregate of four proofs was verified.
C10_Witness ==
    /\ pc = "verified"
    /\ verified = TRUE
    /\ Len(multiframes) = 3
    /\ ret.proof_count = 4

\* The six field elements of one IO: tag and digest of the expression, of
\* the environment and of the continuation.
SixElements(io) ==
    << <<"tag", io.expr>>, <<"hash", io.expr>>,
       <<"tag", io.env>>, <<"hash", io.env>>,
       <<"tag", io.cont>>, <<"hash", io.cont>> >>

\* The public-input vector has 19 elements, in the given order of blocks.
InputsLaidOut(v, first, second, third, i) ==
    /\ Len(v) = 19
    /\ SubSeq(v, 1, 6) = SixElements(first)
    /\ SubSeq(v, 7, 12) = SixElements(second)
    /\ SubSeq(v, 13, 18) = SixElements(third)
    /\ v[19] = <<"fr", i>>

\* What proof.rs builds for a proved frame: 19 elements, the six of input,
\* the six of output, the six of initial, then the index i.
CodeOrderOfInputs ==
    \A k \in 1..Len(seq_proofs) :
        LET f == seq_proofs[k].frame
        IN  InputsLaidOut(seq_proofs[k].proof.statement,
                          f.input, f.output, frames[1].input, f.i)

\* C11: the public-input vector of a frame whose initial, input, output and
\* index are all present has exactly 19 elements: the six of initial, then
\* the six of input, then the six of output, then the index i.
C11_InputsInitialFirst ==
    \A k \in 1..Len(seq_proofs) :
        LET f == seq_proofs[k].frame
        IN  InputsLaidOut(seq_proofs[k].proof.statement,
                          frames[1].input, f.input, f.output, f.i)

\* The third frame of an evaluation was proved: initial, input and output
\* are three different triples.
C11_Witness ==
    /\ Len(seq_proofs) >= 3
    /\ seq_proofs[3].frame.input # frames[1].input
    /\ seq_proofs[3].frame.input # seq_proofs[3].frame.output
    /\ Len(seq_proofs[3].proof.statement) = 19

\* Element k of the sequence under verification breaks the chain or does
\* not verify against the public inputs of its own multiframe.
ElementBreaks(k) ==
    \/ k > 1 /\ multiframes[k - 1].output # multiframes[k].input
    \/ ~proofs[k].sat
    \/ proofs[k].statement # MultiFramePublicInputs(multiframes[k])

SequentialReturned == pc \in {"css_returned", "groth16_returned"}

C13_FailuresReturned ==
    \A f \in failure :
        f.at \in {"inner proof", "dummy proof", "synthesis"} =>
            /\ pc # "aborted"
            /\ pc = "returned_err"
            /\ ret = [err |-> f.kind]

\* The proof of the dummy multiframe failed after two real multiframes were
\* proved.
C13_Witness ==
    /\ \E f \in failure : f.at = "dummy proof"
    /\ Len(proofs) = 3
    /\ Len(multiframes) = 3

\* What the code does keep: a failing aggregation is returned by `?`.
AggregationFailureReturned ==
    \A f \in failure :
        f.at = "aggregation" => pc = "returned_err" /\ ret = [err |-> f.kind]

\* load_srs has returned and INNER_PRODUCT_SRS has handed the outcome on.
SrsSettled == pc \in {"srs_ready", "aborted"} /\ srs_result # {}

LoadSrsResult ==
    srs_result # {} =>
        /\ (srs_env.cwd = "ok" /\ srs_env.open # "ok" /\ ~srs_env.fallback) =>
              srs_result = {[err |-> srs_env.open]}
        /\ [ok |-> "fake"] \in srs_result =>
              srs_env.open # "ok" /\ srs_env.fallback

\* The frames the evaluator made, without the stutter frames of the padding.
NonStutterFrames == SelectSeq(frames, LAMBDA f : ~IsStutter(f))

\* Positions at which the frames of the evaluation exist.
FramesGenerated == AfterFrames \cup {"frame_prove", "frame_verify", "synthesized"}

\* C16: frame generation ends with at most limit frames from the evaluator
\* (and less than a chunk of stutter frames), and when the program has not
\* reached a Terminal or Error continuation within limit steps, the output
\* continuation of the last non-stutter frame is Error.
C16_LimitForcesError ==
    pc \in FramesGenerated =>
        LET real == NonStutterFrames
        IN  /\ Len(real) >= 1
            /\ Len(real) <= limit
            /\ Len(frames) < Len(real) + cfc
            /\ prog.halt > limit =>
                  /\ Len(real) = limit
                  /\ real[Len(real)].output.cont = "Error"

\* A program that needs more than three steps, cut at limit three and
\* padded by one stutter frame.
C16_Witness ==
    /\ pc = "hydrate"
    /\ limit = 3
    /\ prog.halt > 3
    /\ prog.endTag = "Terminal"
    /\ cfc = 2
    /\ Len(frames) = 4
    /\ frames[3].output.cont = "Error"
    /\ IsStutter(frames[4])


\* Pool::read has returned (or panicked).
ReadReturned == pc \in {"read_done", "written"}

\* Opening minus closing parentheses among the first k characters.
RECURSIVE Depth(_, _)
Depth(text, k) ==
    IF k = 0 THEN 0
    ELSE Depth(text, k - 1)
             + (IF text[k] = "(" THEN 1 ELSE IF text[k] = ")" THEN -1 ELSE 0)

\* The next character that is not a space, from position k on ("" if none).
RECURSIVE NextVisible(_, _)
NextVisible(text, k) ==
    IF k > Len(text) THEN ""
    ELSE IF text[k] = " " THEN NextVisible(text, k + 1)
    ELSE text[k]

\* Texts without string quotes whose first expression is malformed: it
\* starts with a character outside the grammar or with an unmatched closing
\* parenthesis, is a list that is never closed, is a list with a character
\* outside the grammar or with a dot that no expression follows, or starts
\* with a doubled meta marker before an expression.
Malformed(text) ==
    /\ text # <<>>
    /\ \A k \in 1..Len(text) : text[k] # "\""
    /\ \/ text[1] \in {"#", ")"}
       \/ /\ text[1] = "("
          /\ \A k \in 1..Len(text) : Depth(text, k) > 0
       \/ /\ text[1] = "("
          /\ \E k \in 1..Len(text) :
                /\ \A h \in 1..(k - 1) : Depth(text, h) > 0
                /\ \/ text[k] \in {"#", "!"}
                   \/ text[k] = "." /\ NextVisible(text, k + 1) \in {")", ""}
       \/ /\ Len(text) >= 3
          /\ text[1] = "!" /\ text[2] = "!" /\ text[3] \in {"a", "1"}

\* C14: for every malformed source text, read and read_maybe_meta hand the
\* failure back as None and do not abort.
C14_MalformedIsNone ==
    (pc \in {"read_done", "meta_done"} /\ source.kind = "text"
        /\ Malformed(source.body)) =>
            \A r \in read_result : r.kind # "panic" /\ r.kind = "none"

\* A list whose dot no expression follows, after a comment line: the
\* reader panicked.
C14_Witness ==
    /\ pc = "read_done"
    /\ source.kind = "text"
    /\ source.prefix # <<>>
    /\ source.body = <<"(", ".", ")">>
    /\ \E r \in read_result : r.kind = "panic"

\* What the reader does keep on the malformed texts: it never hands back a
\* term for a malformed first expression.
MalformedNeverRead ==
    (pc \in {"read_done", "meta_done"} /\ source.kind = "text"
        /\ Malformed(source.body)) =>
            \A r \in read_result : r.kind # "some"

\* The term read from a text, at the position after the text.
ReadWhole(term) == {Some(term, Len(input) + 1)}

\* C17: reading and writing are inverse on the terms built from symbols,
\* proper lists and dotted pairs: reading the written text of a term gives
\* the term, and writing the term read from a written text gives the text.
C17_ReadWriteRoundTrip ==
    source.kind = "term" =>
        /\ ReadReturned => read_result = ReadWhole(source.term)
        /\ pc = "written" => printed = {input}

\* The term ((A . B1) NIL . A) was written, read and written again.
C17_Witness ==
    /\ pc = "written"
    /\ source.kind = "term"
    /\ source.term = Cons(Cons(Sym(<<"A">>), Sym(<<"B", "1">>)),
                          Cons(Nil, Sym(<<"A">>)))
    /\ input = <<"(", "(", "A", " ", ".", " ", "B", "1", ")", " ",
                 "N", "I", "L", " ", ".", " ", "A", ")">>
    /\ printed = {input}

\* The digit run a text made of before, digits and rest starts with.
LeadingRun(src) ==
    (IF src.before = <<"0", "0">> THEN src.before ELSE <<>>) \o src.digits

\* The decimal value of a digit run, leading zeros ignored.
DecimalValue(digits) == StripZeros([k \in 1..Len(digits) |-> to_digit(digits[k])])

\* C18: for every input whose first token is a run of decimal digits of any
\* length, read returns the number of the run's decimal value and leaves
\* the first character after the run unconsumed.
C18_DigitRunValue ==
    (ReadReturned /\ source.kind = "digits") =>
        read_result = {Some(Num(DecimalValue(LeadingRun(source))),
                            Len(source.before) + Len(source.digits) + 1)}

\* The run 18446744073709551616 (2^64) was read by a build that does not
\* check overflow, and the number returned is 0.
C18_Witness ==
    /\ pc = "read_done"
    /\ source.kind = "digits"
    /\ ~overflow_checks
    /\ DecimalValue(source.digits) = U64Modulus
    /\ \E r \in read_result : r.kind = "some" /\ r.val = Num(Zero)

\* What read_number keeps: a run whose value is below 2^64 is read exactly.
RunsBelowModulusRead ==
    (ReadReturned /\ source.kind = "digits"
        /\ NatLess(DecimalValue(LeadingRun(source)), U64Modulus)) =>
            read_result = {Some(Num(DecimalValue(LeadingRun(source))),
                                Len(source.before) + Len(source.digits) + 1)}

\* cons(e1, ... cons(en, t))
RECURSIVE ConsChain(_, _)
ConsChain(es, t) ==
    IF es = <<>> THEN t ELSE Cons(es[1].term, ConsChain(Tail(es), t))

\* C19: reading "(e1 ... en . t)" yields cons(e1, ... cons(en, t)), and
\* reading "(e1 ... en)" yields the same term as reading "(e1 ... en . ())":
\* the chain that ends in nil.
C19_ListsAreConsChains ==
    (ReadReturned /\ source.kind = "list") =>
        /\ source.shape = "dotted" =>
              read_result = ReadWhole(ConsChain(source.elems, source.tail.term))
        /\ source.shape \in {"proper", "dotted nil"} =>
              read_result = ReadWhole(ConsChain(source.elems, Nil))

\* "(a (b) . 42)" was read.
C19_Witness ==
    /\ pc = "read_done"
    /\ source.kind = "list"
    /\ source.shape = "dotted"
    /\ input = <<"(", "a", " ", "(", "b", ")", " ", ".", " ", "4", "2", ")">>
    /\ read_result = ReadWhole(Cons(Sym(<<"A">>),
                         Cons(Cons(Sym(<<"B">>), Nil), Num(<<4, 2>>))))

\* The position of the first character after optional whitespace and
\* comments.
FirstVisible == skip_whitespace_and_peek(input, 1)

StartsWithBang == FirstVisible <= Len(input) /\ input[FirstVisible] = "!"

\* What is read after the '!' (a string, or else an expression), or from
\* the start when there is no '!'.
MetaOperand ==
    IF StartsWithBang
    THEN LET s == read_string(input, FirstVisible + 1)
         IN  IF s.kind = "some" THEN s ELSE read_next(input, FirstVisible + 1)
    ELSE read_next(input, 1)

\* r is (e, is_meta) for the operand e and is_meta telling whether the text
\* starts with '!', and None when there is no operand to return.
MetaAgrees(r) ==
    /\ r.kind = "some" <=> MetaOperand.kind = "some"
    /\ r.kind = "some" => r.val = MetaOperand.val /\ r.meta = StartsWithBang

\* C20: read_maybe_meta returns (e, true) exactly when the first character
\* after optional whitespace and comments is '!', e being the string or
\* expression read after the '!'; otherwise (e, false) with e the result of
\* read_next; and None when no expression follows.
C20_MetaMarker ==
    pc = "meta_done" =>
        \A r \in read_result : r.kind \in {"some", "none"} /\ MetaAgrees(r)

\* "!!a" was handed to read_maybe_meta, which panicked.
C20_Witness ==
    /\ pc = "meta_done"
    /\ input = <<"!", "!", "a">>
    /\ \E r \in read_result : r.kind = "panic"

\* What read_maybe_meta keeps: whenever it returns, it returns what C20
\* says.
MetaMarkerWhenReturning ==
    pc = "meta_done" =>
        \A r \in read_result : r.kind # "panic" => MetaAgrees(r)

\* The text has a string quote at position p and another one later.
QuoteAt(p) == p <= Len(input) /\ input[p] = "\""

ClosingQuotes(p) == {q \in (p + 1)..Len(input) : input[q] = "\""}

\* C21: read_string returns Some(string) exactly when, after optional
\* whitespace and comments, the text starts with a quote and holds a later
\* one, the string being the characters strictly between the two; it returns
\* None for an unterminated string and for a text that does not start with a
\* quote, and then it consumes only the leading whitespace and comments.
C21_ReadString ==
    pc = "string_done" =>
        \A r \in read_result :
            LET p == FirstVisible
            IN  /\ r.kind \in {"some", "none"}
                /\ r.kind = "some" <=> (QuoteAt(p) /\ ClosingQuotes(p) # {})
                /\ r.kind = "some" =>
                      \E q \in ClosingQuotes(p) :
                          /\ \A h \in ClosingQuotes(p) : q <= h
                          /\ r.val = Str(SubSeq(input, p + 1, q - 1))
                          /\ r.pos = q + 1
                /\ ~QuoteAt(p) => r.kind = "none" /\ r.pos = p

\* After a comment line and a space, the string "a" was read from a text
\* that goes on after the closing quote.
C21_Witness ==
    /\ pc = "string_done"
    /\ input = <<";", "c", "\n", " ", "\"", "a", "\"">>
    /\ read_result = {Some(Str(<<"a">>), 8)}

\* C22: a comment from ';' to the end of its line is ignored wherever a
\* token may start: read (and read_maybe_meta before a meta marker) returns
\* what it returns on the text with the comment removed, and a text that
\* holds only an unterminated comment reads as None.
C22_CommentsIgnored ==
    source.kind = "commented" =>
        /\ pc = "read_done" =>
              \A r \in read_result :
                  /\ r.kind = read(source.plain).kind
                  /\ r.val = read(source.plain).val
        /\ pc = "meta_done" =>
              \A r \in read_result :
                  /\ r.kind = read_maybe_meta(source.plain, 1).kind
                  /\ r.val = read_maybe_meta(source.plain, 1).val
                  /\ r.meta = read_maybe_meta(source.plain, 1).meta
        /\ (pc \in {"read_done", "meta_done"} /\ source.tokens = <<>>) =>
              \A r \in read_result : r.kind = "none"

\* "(a;(" then a carriage return then "b)" was read as the list (A B).
C22_Witness ==
    /\ pc = "read_done"
    /\ source.kind = "commented"
    /\ input = <<"(", " ", "a", ";", "(", "\r", "b", " ", ")">>
    /\ \E r \in read_result :
          r.kind = "some" /\ r.val = Cons(Sym(<<"A">>), Cons(Sym(<<"B">>), Nil))

\* A text holding only an unterminated comment was read as None.
OnlyCommentIsNone ==
    /\ pc = "read_done"
    /\ input = <<";", "c">>
    /\ \E r \in read_result : r.kind = "none"


\* Some two consecutive frames of the sequence handed to the per-frame
\* verifier do not chain: the output of one is not the input of the next.
BrokenChain ==
    \E k \in 1..(Len(seq_proofs) - 1) :
        ~precedes(seq_proofs[k].frame, seq_proofs[k + 1].frame)

\* C23: verify_sequential_groth16_proofs of proof.rs returns Ok(false) for
\* every sequence in which some consecutive pair of frames fails precedes,
\* whatever the proofs are.
C23_BrokenChainRejected ==
    (pc = "frame_verified" /\ BrokenChain) => verified = FALSE

\* A sequence whose second frame does not start where the first ended has
\* been through the verifier, every proof being the frame's own.
C23_Witness ==
    /\ pc = "frame_verified"
    /\ BrokenChain
    /\ \A k \in 1..Len(seq_proofs) : verify_proof(seq_proofs[k].proof, FramePublicInputs(CircuitFrameFromFrame(seq_proofs[1].frame.input, seq_proofs[k].frame)))

\* What the code does: a sequence is accepted exactly when every proof
\* verifies against its frame, the chaining of the frames playing no part.
C23_AcceptedOnProofsAlone ==
    pc = "frame_verified" =>
        (verified = TRUE <=> \A k \in 1..Len(seq_proofs) : verify_proof(seq_proofs[k].proof, FramePublicInputs(CircuitFrameFromFrame(seq_proofs[1].frame.input, seq_proofs[k].frame))))


\* C24: outer_prove generates all frames, then hydrates the store, then
\* builds the multiframes, then makes the inner proofs, then pads, then
\* aggregates; once hydrate_scalar_cache has run the store holds exactly the
\* terms the evaluator interned, so that nothing later (the construction of
\* the multiframes and of the dummy multiframe included) has added a term.
C24_StepsInOrder ==
    /\ hydrated =>
          /\ frames = generate_frames(prog, limit, cfc)
          /\ store = FrameTerms(frames)
    /\ multiframes # <<>> =>
          /\ hydrated
          /\ multiframes = from_frames(cfc, frames)
    /\ (proofs # <<>> \/ statements # <<>>) => multiframes # <<>>
    /\ Len(proofs) > Len(multiframes) =>
          \A k \in 1..Len(multiframes) :
              proofs[k].statement = MultiFramePublicInputs(multiframes[k])
    /\ pc \in AfterPadding =>
          /\ Len(proofs) = Len(statements)
          /\ Len(proofs) >= Len(multiframes)
          /\ ~NeedsProofPadding(Len(proofs))
    /\ pc \in AfterReturn => ret.proof_count = Len(proofs)

\* outer_prove has returned from a run in which a dummy multiframe was
\* constructed after the store was hydrated.
C24_Witness ==
    /\ pc = "done"
    /\ hydrated
    /\ Len(multiframes) = 3
    /\ Len(proofs) = 4
    /\ dummy_multiframe.dummy


\* The inner proofs outer_prove has made: one per multiframe proved so far.
InnerProofs == 1..Min(Len(proofs), Len(multiframes))

DummiesAppended == Len(proofs) - Len(multiframes)

\* C26: for the Groth16 prover needs_multiframe_padding(c) is true exactly
\* when outer_prove appends dummy proofs for c multiframes, and
\* multiframe_padding_count(c) is the number of dummy proofs it appends.
C26_PaddingCountAgrees ==
    pc \in AfterPadding =>
        /\ needs_multiframe_padding(Len(multiframes)) <=> DummiesAppended > 0
        /\ multiframe_padding_count(Len(multiframes)) = DummiesAppended

\* Three multiframes were padded with one dummy proof.
C26_Witness ==
    /\ pc = "done"
    /\ Len(multiframes) = 3
    /\ DummiesAppended = 1


\* The least power of two that is at least max(m, 2).
PaddedLength(m) ==
    CHOOSE n \in 2..(2 * Max(m, 2)) :
        /\ IsPowerOfTwo(n)
        /\ n >= Max(m, 2)
        /\ \A q \in 2..(n - 1) : ~(IsPowerOfTwo(q) /\ q >= Max(m, 2))

\* C27: for m >= 1 multiframes the padding loop of outer_prove ends with n
\* proofs and n statements, n the least power of two with n >= max(m, 2);
\* the first m are the multiframes' proofs and public inputs in order, the
\* other n - m are copies of one dummy proof and one dummy statement, and
\* nothing is appended when m is a power of two >= 2.  While the loop runs
\* the sequences are shorter than n, so that it ends.
C27_PaddingLoop ==
    LET m == Len(multiframes)
        n == PaddedLength(m)
    IN  /\ pc = "pad" =>
              /\ Len(proofs) = Len(statements)
              /\ m < Len(proofs)
              /\ Len(proofs) < n
        /\ pc \in AfterPadding =>
              /\ m >= 1
              /\ Len(proofs) = n
              /\ Len(statements) = n
              /\ \A k \in 1..m :
                     /\ statements[k] = MultiFramePublicInputs(multiframes[k])
                     /\ proofs[k] = generate_groth16_proof(prog, multiframes[k], proofs[k].rng)
              /\ \A k \in (m + 1)..n :
                     /\ proofs[k] = proofs[m + 1]
                     /\ proofs[k] = generate_groth16_proof(prog, dummy_multiframe, proofs[k].rng)
                     /\ statements[k] = MultiFramePublicInputs(dummy_multiframe)
              /\ (IsPowerOfTwo(m) /\ m >= 2) => n = m

\* Five multiframes were padded with three copies of the dummy proof and
\* outer_prove returned.
C27_Witness ==
    /\ pc = "done"
    /\ Len(multiframes) = 5
    /\ Len(proofs) = 8
    /\ dummy_multiframe.dummy


\* Texts of the form "( . e )": the first thing after the opening
\* parenthesis is the dot.
LeadingDot(text) ==
    /\ text # <<>>
    /\ text[1] = "("
    /\ NextVisible(text, 2) = "."

\* C28: a dotted tail is accepted only after at least one list element, so
\* read returns no value for a text of the form "( . e )".
C28_LeadingDotRejected ==
    (pc = "read_done" /\ source.kind = "text" /\ LeadingDot(source.body)) =>
        \A r \in read_result : r.kind # "some"

\* "(.a)" was read, and the reader handed back the symbol A.
C28_Witness ==
    /\ pc = "read_done"
    /\ source.kind = "text"
    /\ source.body = <<"(", ".", "a", ")">>
    /\ read_result = ReadWhole(Sym(<<"A">>))

\* What the reader does with a leading dot: when an expression and the
\* closing parenthesis follow, the list reads as that expression alone.
LeadingDotReadsTail ==
    (pc = "read_done" /\ source.kind = "text" /\ source.prefix = <<>>
        /\ LeadingDot(source.body)) =>
        \A r \in read_result :
            r.kind = "some" =>
                \E d \in 2..Len(input) :
                    /\ input[d] = "."
                    /\ r.val = read_next(input, d + 1).val

====
